---- MODULE Spec2Model ----
(***************************************************************************)
(* Model of data_fetcher.py (RaiTC/CISA_Dash): the incremental acquisition *)
(* pipeline get_latest_data = fetch_cisa_data, load_cached_data,           *)
(* process_cisa_data (with fetch_epss_score / fetch_cvss_base_score per    *)
(* new record) and save_cached_data (archive copy, temp file, move, git).  *)
(*                                                                         *)
(* A DataFrame is a sequence of rows; the row index the code uses          *)
(* (0..n-1 after concat(ignore_index=True), or the unfiltered feed index   *)
(* on a first run) is always the position, so to_dict()/DataFrame(dict)    *)
(* keep every row and its order.  A date cell carries its representation:  *)
(* "str" (feed text), "ts" (pandas Timestamp), "iso" (isoformat text).     *)
(* Scores are in tenths; an absent score (None) is <<>>, a value v is <<v>>.*)
(***************************************************************************)
EXTENDS Integers, Sequences, FiniteSets, TLC

\* ---------------------------------------------------------------- bounds
MaxRuns == 3

\* ------------------------------------------------------ program constants
NVD_SLEEPTIME == 6

\* ------------------------------------------------------------ input sets
CVEs == {"CVE-A", "CVE-B"}
\* catalog versions as issued by the feed: characters of "1.1", "1.2"
Versions == {<<"1", ".", "1">>, <<"1", ".", "2">>}

None == <<>>
Some(v) == <<v>>

NoneDF == [isNone |-> TRUE, rows |-> <<>>]
DF(rows) == [isNone |-> FALSE, rows |-> rows]

RawDate(d) == [fmt |-> "str", day |-> d]

\* one entry of the feed's vulnerabilities list; the due date follows the
\* date added, so a revised feed copy of a record changes both dates
FeedRecord(c, d) == [cveID |-> c, dateAdded |-> RawDate(d), dueDate |-> RawDate(d + 1)]

\* the vulnerabilities lists the feed publishes: empty, one record, the same
\* record revised together with a new one, the two in the other order, and
\* one identifier listed twice
FeedLists ==
    { <<>>,
      <<FeedRecord("CVE-A", 1)>>,
      <<FeedRecord("CVE-A", 2), FeedRecord("CVE-B", 1)>>,
      <<FeedRecord("CVE-B", 1), FeedRecord("CVE-A", 1)>>,
      <<FeedRecord("CVE-A", 1), FeedRecord("CVE-A", 1)>> }

\* the two keys of the feed document the program reads; `keys` are the keys
\* a document has, and cisa_data[k] raises KeyError for any other k
FeedKeys == {"catalogVersion", "vulnerabilities"}

Feeds == [catalogVersion : Versions, vulnerabilities : FeedLists, keys : {FeedKeys}]

\* documents without catalogVersion, without vulnerabilities, without both
\* (the last is what an error answer of the feed's server carries)
NoVersionFeed ==
    [catalogVersion |-> <<>>, vulnerabilities |-> <<FeedRecord("CVE-A", 1)>>,
     keys |-> {"vulnerabilities"}]
NoVulnerabilitiesFeed ==
    [catalogVersion |-> <<"1", ".", "2">>, vulnerabilities |-> <<>>,
     keys |-> {"catalogVersion"}]
ErrorDocument == [catalogVersion |-> <<>>, vulnerabilities |-> <<>>, keys |-> {}]

Malformed(cisa) == cisa.keys # FeedKeys

\* what requests.get(CISA_URL) can give: no connection, or a status and a body
FeedResponses ==
    { [conn |-> FALSE, status_code |-> 0, body |-> [kind |-> "none"]],
      [conn |-> TRUE, status_code |-> 503, body |-> [kind |-> "notjson"]],
      [conn |-> TRUE, status_code |-> 503, body |-> [kind |-> "json", doc |-> ErrorDocument]],
      [conn |-> TRUE, status_code |-> 200, body |-> [kind |-> "json", doc |-> NoVersionFeed]],
      [conn |-> TRUE, status_code |-> 200,
       body |-> [kind |-> "json", doc |-> NoVulnerabilitiesFeed]] }
    \cup { [conn |-> TRUE, status_code |-> 200, body |-> [kind |-> "json", doc |-> f]] :
             f \in Feeds }

\* ------------------------------------------------------- pure conversions
\* pd.to_datetime on a date cell: feed text, ISO text or Timestamp -> Timestamp
ToDatetime(x) == [fmt |-> "ts", day |-> x.day]

\* an isoformat that first shifts the Timestamp to another time zone
IsoFormatShifted(x) == IF x.fmt = "ts" THEN [fmt |-> "iso", day |-> x.day - 1] ELSE x

\* lambda x: x.isoformat() if isinstance(x, pd.Timestamp) else x
IsoFormat(x) == IF x.fmt = "ts" THEN [fmt |-> "iso", day |-> x.day] ELSE x

\* catalog_version.replace('.', '')
RECURSIVE StripDots(_)
StripDots(s) ==
    IF s = <<>> THEN <<>>
    ELSE IF Head(s) = "." THEN StripDots(Tail(s))
    ELSE <<Head(s)>> \o StripDots(Tail(s))

\* os.path.join(LEGACY_DIR, f"KEV_{...}.json"): the archive entry's name
LegacyName(v) == <<"KEV_">> \o StripDots(v) \o <<".json">>
LegacyNames == {LegacyName(v) : v \in Versions}

\* files on disk
Absent == [kind |-> "absent"]
\* a cache document written without its catalogVersion
DocFileUntagged(v, rows) == [kind |-> "doc", catalogVersion |-> None, processed_data |-> rows]

\* json.dump(cisa_data): the feed document with processed_data added
DocFile(v, rows) == [kind |-> "doc", catalogVersion |-> v, processed_data |-> rows]
Truncated == [kind |-> "truncated"]       \* strict prefix of a document: invalid JSON
Garbage == [kind |-> "garbage"]           \* not JSON
NoProcessed == [kind |-> "noprocessed"]   \* valid JSON without processed_data
Unreadable == [kind |-> "unreadable"]     \* exists, open() is refused

\* an existence test that looks at another path and never finds the file
ExistsNowhere(f) == FALSE

\* os.path.exists(path)
Exists(f) == f.kind # "absent"

\* both date columns of every row through pd.to_datetime / through isoformat
DatesToDatetime(r) == [r EXCEPT !.dateAdded = ToDatetime(@), !.dueDate = ToDatetime(@)]
DatesToIso(r) == [r EXCEPT !.dateAdded = IsoFormat(@), !.dueDate = IsoFormat(@)]
RowsToDatetime(rows) == [k \in 1..Len(rows) |-> DatesToDatetime(rows[k])]
RowsToIso(rows) == [k \in 1..Len(rows) |-> DatesToIso(rows[k])]

IdsOf(rows) == {rows[k].cveID : k \in 1..Len(rows)}

\* result of a call: returned value, or a raised exception
Return(v) == [raised |-> FALSE, value |-> v]
Raise(e) == [raised |-> TRUE, value |-> e]

\* response = requests.get(CISA_URL); return response.json(): the status code
\* is not looked at
fetch_cisa_data(r) ==
    IF ~r.conn THEN Raise("ConnectionError")
    ELSE IF r.body.kind = "notjson" THEN Raise("JSONDecodeError")
    ELSE Return(r.body.doc)

\* ------------------------------------------------------- scoring services
\* float(data['data'][0]['epss']): the service sends the score as text
Float(s) == CASE s = "0.5" -> 5 [] s = "0.9" -> 9

\* a body of the likelihood service: status, total and `total` data records,
\* the first with the epss text `first`
EpssBody(status, total, first) ==
    [kind |-> "json", status |-> status, total |-> total,
     data |-> [i \in 1..total |-> [epss |-> IF i = 1 THEN first ELSE "0.9"]]]

EpssJson(status, total) == EpssBody(status, total, "0.5")

\* what requests.get(url) can give the likelihood client
EpssResponses ==
    { [conn |-> FALSE, status_code |-> 0, body |-> [kind |-> "none"]],
      [conn |-> TRUE, status_code |-> 503, body |-> [kind |-> "none"]],
      [conn |-> TRUE, status_code |-> 200, body |-> [kind |-> "notjson"]],
      [conn |-> TRUE, status_code |-> 200, body |-> [kind |-> "noshape"]],
      [conn |-> TRUE, status_code |-> 200, body |-> EpssJson("OK", 0)],
      [conn |-> TRUE, status_code |-> 200, body |-> EpssJson("OK", 1)] }

\* every answer the likelihood client is examined on: any of three status
\* codes with a body that is not JSON, JSON of another shape, or a document
\* with either status, 0 to 2 records and either score text
EpssInputs ==
    { [conn |-> FALSE, status_code |-> 0, body |-> [kind |-> "none"]] }
    \cup [conn : {TRUE}, status_code : {200, 404, 503},
          body : {[kind |-> "notjson"], [kind |-> "noshape"]}
                 \cup {EpssBody(st, t, x) : st \in {"OK", "error"}, t \in 0..2,
                                            x \in {"0.5", "0.9"}}]

\* a client that returns the first record's score whatever the body's status
fetch_epss_score_any_status(r) ==
    IF ~r.conn THEN Raise("ConnectionError")
    ELSE IF r.status_code = 200 THEN
        IF r.body.kind = "notjson" THEN Raise("JSONDecodeError")
        ELSE IF r.body.kind = "noshape" THEN Raise("KeyError")
        ELSE IF r.body.total > 0
             THEN Return(Some(Float(r.body.data[1].epss)))
             ELSE Return(None)
    ELSE Return(None)

fetch_epss_score(r) ==
    IF ~r.conn THEN Raise("ConnectionError")
    ELSE IF r.status_code = 200 THEN
        IF r.body.kind = "notjson" THEN Raise("JSONDecodeError")
        ELSE IF r.body.kind = "noshape" THEN Raise("KeyError")
        ELSE IF r.body.status = "OK" /\ r.body.total > 0
             THEN Return(Some(Float(r.body.data[1].epss)))
             ELSE Return(None)
    ELSE Return(None)

\* one severity schema of the metrics object: absent key or empty list (not
\* present), or a list whose first entry lacks cvssData or baseScore, or has
\* baseScore as a number or as JSON null
\* (`usable`: the keys are there; baseScore: the JSON value, null being None)
NoMetric == [present |-> FALSE, usable |-> FALSE, baseScore |-> None]
BadMetric == [present |-> TRUE, usable |-> FALSE, baseScore |-> None]
NullMetric == [present |-> TRUE, usable |-> TRUE, baseScore |-> None]
Metric(s) == [present |-> TRUE, usable |-> TRUE, baseScore |-> Some(s)]

CvssJson(v31, v30, v2) ==
    [kind |-> "json",
     vulnerabilities |-> <<[cvssMetricV31 |-> v31, cvssMetricV30 |-> v30, cvssMetricV2 |-> v2]>>]

CvssResponses ==
    { [conn |-> FALSE, status_code |-> 0, body |-> [kind |-> "none"]],
      [conn |-> TRUE, status_code |-> 503, body |-> [kind |-> "none"]],
      [conn |-> TRUE, status_code |-> 200, body |-> [kind |-> "notjson"]],
      [conn |-> TRUE, status_code |-> 200, body |-> [kind |-> "null"]],
      [conn |-> TRUE, status_code |-> 200, body |-> [kind |-> "json", vulnerabilities |-> <<>>]],
      [conn |-> TRUE, status_code |-> 200, body |-> CvssJson(NoMetric, NoMetric, NoMetric)],
      [conn |-> TRUE, status_code |-> 200, body |-> CvssJson(Metric(98), NoMetric, NoMetric)],
      [conn |-> TRUE, status_code |-> 200, body |-> CvssJson(BadMetric, Metric(98), NoMetric)] }

CvssReturn(v, slept) == [raised |-> FALSE, value |-> v, slept |-> slept]
CvssRaise(e) == [raised |-> TRUE, value |-> e, slept |-> 0]

\* the return inside the try block: [0]['cvssData']['baseScore'], whose
\* KeyError is caught and falls through to the sleep and return None
CvssFirst(m) ==
    IF m.usable THEN CvssReturn(m.baseScore, 0)
    ELSE CvssReturn(None, NVD_SLEEPTIME)

\* every answer the severity client is examined on: any of three status
\* codes with a body that is not JSON, JSON null, an empty vulnerabilities
\* list, or metrics with each schema absent, unusable or scored
CvssInputs ==
    { [conn |-> FALSE, status_code |-> 0, body |-> [kind |-> "none"]] }
    \cup [conn : {TRUE}, status_code : {200, 403, 503},
          body : {[kind |-> "notjson"], [kind |-> "null"],
                  [kind |-> "json", vulnerabilities |-> <<>>]}
                 \cup {CvssJson(a, b, c) :
                         a \in {NoMetric, BadMetric, NullMetric, Metric(98)},
                         b \in {NoMetric, BadMetric, Metric(75)},
                         c \in {NoMetric, BadMetric, Metric(50)}}]

\* a client that goes on to the next schema when an entry has no base score
fetch_cvss_base_score_next_schema(r) ==
    IF ~r.conn THEN CvssRaise("ConnectionError")
    ELSE IF r.status_code = 200 THEN
        IF r.body.kind = "notjson" THEN CvssRaise("JSONDecodeError")
        ELSE IF r.body.kind = "null" THEN CvssRaise("TypeError")
        ELSE IF Len(r.body.vulnerabilities) > 0 THEN
            LET m == r.body.vulnerabilities[1] IN
            IF m.cvssMetricV31.usable THEN CvssFirst(m.cvssMetricV31)
            ELSE IF m.cvssMetricV30.usable THEN CvssFirst(m.cvssMetricV30)
            ELSE IF m.cvssMetricV2.usable THEN CvssFirst(m.cvssMetricV2)
            ELSE CvssReturn(None, NVD_SLEEPTIME)
        ELSE CvssReturn(None, NVD_SLEEPTIME)
    ELSE CvssReturn(None, NVD_SLEEPTIME)

fetch_cvss_base_score(r) ==
    IF ~r.conn THEN CvssRaise("ConnectionError")
    ELSE IF r.status_code = 200 THEN
        IF r.body.kind = "notjson" THEN CvssRaise("JSONDecodeError")
        ELSE IF r.body.kind = "null" THEN CvssRaise("TypeError")
        ELSE IF Len(r.body.vulnerabilities) > 0 THEN
            LET m == r.body.vulnerabilities[1] IN
            IF m.cvssMetricV31.present THEN CvssFirst(m.cvssMetricV31)
            ELSE IF m.cvssMetricV30.present THEN CvssFirst(m.cvssMetricV30)
            ELSE IF m.cvssMetricV2.present THEN CvssFirst(m.cvssMetricV2)
            ELSE CvssReturn(None, NVD_SLEEPTIME)
        ELSE CvssReturn(None, NVD_SLEEPTIME)
    ELSE CvssReturn(None, NVD_SLEEPTIME)

\* ------------------------------------------------------- process_cisa_data
\* df = pd.DataFrame(vulnerabilities) with both date columns to_datetime
FeedFrame(cisa) == RowsToDatetime(cisa.vulnerabilities)

\* set(cached_data['cveID']) if cached_data is not None else set()
CachedCves(cached) == IF cached.isNone THEN {} ELSE IdsOf(cached.rows)

\* a delta that takes every feed record, cached or not
NewCvesAll(df, cached) == df

\* df[~df['cveID'].isin(cached_cves)]
NewCves(df, cached) == SelectSeq(df, LAMBDA r : r.cveID \notin CachedCves(cached))

\* an apply that runs over the cveID column of the whole feed frame
ApplyColumnOfFeed(df, new) == [k \in 1..Len(df) |-> df[k].cveID]

\* new_cves['cveID']: the column both apply calls run over, one call per cell
ApplyColumn(df, new) == [k \in 1..Len(new) |-> new[k].cveID]

\* .fillna(0) on a score column
FillNa(x) == IF x = None THEN 0 ELSE x[1]

\* an enrichment that fills the severity column from the likelihood results
EnrichedFromEpss(new, epss, cvss) ==
    [k \in 1..Len(new) |->
        [cveID |-> new[k].cveID, dateAdded |-> new[k].dateAdded, dueDate |-> new[k].dueDate,
         EPSS |-> FillNa(epss[k]), CVSS3 |-> FillNa(epss[k])]]

\* new_cves with the two score columns, each through fillna(0)
Enriched(new, epss, cvss) ==
    [k \in 1..Len(new) |->
        [cveID |-> new[k].cveID, dateAdded |-> new[k].dateAdded, dueDate |-> new[k].dueDate,
         EPSS |-> FillNa(epss[k]), CVSS3 |-> FillNa(cvss[k])]]

\* a merge that puts the delta in front of the cached rows
CombineNewFirst(cached, new) == IF cached.isNone THEN DF(new) ELSE DF(new \o cached.rows)

\* a merge that appends the delta last record first
CombineDeltaReversed(cached, new) ==
    LET rev == [k \in 1..Len(new) |-> new[Len(new) + 1 - k]] IN
    IF cached.isNone THEN DF(rev) ELSE DF(cached.rows \o rev)

\* a merge that keeps the new rows only
CombineNewOnly(cached, new) == DF(new)

\* pd.concat([cached_data, new_cves], ignore_index=True), or new_cves alone
Combine(cached, new) == IF cached.isNone THEN DF(new) ELSE DF(cached.rows \o new)

\* --------------------------------------------------------- cache documents
\* load_cached_data's conversion of a parsed document into a DataFrame
LoadFrame(doc) == DF(RowsToDatetime(doc.processed_data))

\* save_cached_data's document: datetime columns to ISO text, then to_dict()
SavedRows(rows) == RowsToIso(rows)

\* a staleness test that also looks for feed identifiers the cache lacks
NeedsUpdateByContent(cached, version, cisa) ==
    \/ cached.isNone
    \/ version # cisa.catalogVersion
    \/ \E k \in 1..Len(cisa.vulnerabilities) :
          cisa.vulnerabilities[k].cveID \notin IdsOf(cached.rows)

\* get_latest_data's test for the update path
NeedsUpdate(cached, version, cisa) == cached.isNone \/ version # cisa.catalogVersion

\* ------------------------------------------------------------------ state
VARIABLES
    pc,                     \* position of the run of get_latest_data ("idle": none)
    runs,                   \* runs started so far
    cisa_data,              \* the feed document of the current run
    cached_data,            \* load_cached_data's DataFrame, or NoneDF
    cached_catalog_version, \* load_cached_data's version, or None
    new_cves,               \* process_cisa_data's delta rows
    epss,                   \* results of new_cves['cveID'].apply(fetch_epss_score) so far
    cvss,                   \* results of new_cves['cveID'].apply(fetch_cvss_base_score) so far
    processed_data,         \* the DataFrame object process_cisa_data returned
    tmp_file,               \* the current run's NamedTemporaryFile (a fresh name each run)
    cacheFile,              \* CACHE_FILE
    bakFile,                \* CACHE_FILE + ".bak"
    legacy,                 \* LEGACY_DIR: entry name -> file
    calls,                  \* scoring calls of the current run, in order
    writes,                 \* files the current run has written or renamed
    result,                 \* outcome of the run that ended last, with the feed it fetched
    last,                   \* what the run before returned, when it took the update path
    unchanged,              \* the current run fetched the same feed as the run before
    mergedIds,              \* identifiers some completed save has put into CACHE_FILE
    priorCache,             \* CACHE_FILE as it was when the current run started
    probe,                  \* a scoring client called on its own: response and result
    runner,                 \* two overlapping runs of get_latest_data: each one's frame
    crossfs                 \* the temporary directory is on another filesystem than CACHE_FILE

vars == <<pc, runs, cisa_data, cached_data, cached_catalog_version, new_cves, epss, cvss,
          processed_data, tmp_file, cacheFile, bakFile, legacy, calls, writes, result,
          last, unchanged, mergedIds, priorCache, probe, runner, crossfs>>

files == <<cacheFile, bakFile, legacy, tmp_file>>
locals == <<cisa_data, cached_data, cached_catalog_version, new_cves, epss, cvss,
            processed_data>>
history == <<runs, last, unchanged, mergedIds, priorCache, probe, runner, crossfs>>

NoFeed == [catalogVersion |-> None, vulnerabilities |-> <<>>, keys |-> FeedKeys]
NoResult == [kind |-> "none", at |-> "-", returned |-> NoneDF, feed |-> NoFeed]
NoLast == [kind |-> "none", returned |-> NoneDF]

\* a cache file that exists before the first run was not written by this
\* program's save: it is absent, or one of the unusable files load_cached_data
\* is specified for
\* no scoring client is called outside a run of get_latest_data
NoProbe == [fn |-> "none", done |-> FALSE,
            response |-> [conn |-> FALSE, status_code |-> 0, body |-> [kind |-> "none"]],
            result |-> Return(None)]

\* the frame of one of two overlapping runs: position, locals, the document
\* it writes, the file its copy of shutil.move is writing into, whether that
\* copy shared the file with the other run's copy, and the outcome
Runners == {1, 2}
StartRunner ==
    [pc |-> "start", cisa_data |-> NoFeed, cached_data |-> NoneDF,
     cached_catalog_version |-> None, processed_data |-> NoneDF, written |-> Absent,
     dest |-> "-", torn |-> FALSE, result |-> "none"]
NoRunners == [i \in Runners |-> [StartRunner EXCEPT !.pc = "none"]]

InitialCacheFiles == {Absent, Garbage, NoProcessed, Unreadable}

Init ==
    /\ pc = "idle"
    /\ runs = 0
    /\ cisa_data = NoFeed
    /\ cached_data = NoneDF
    /\ cached_catalog_version = None
    /\ new_cves = <<>>
    /\ epss = <<>>
    /\ cvss = <<>>
    /\ processed_data = NoneDF
    /\ tmp_file = Absent
    /\ cacheFile \in InitialCacheFiles
    /\ bakFile = Absent
    /\ legacy = [n \in LegacyNames |-> Absent]
    /\ calls = <<>>
    /\ writes = {}
    /\ result = NoResult
    /\ last = NoLast
    /\ unchanged = FALSE
    /\ mergedIds = {}
    /\ priorCache = cacheFile
    /\ probe = NoProbe
    /\ runner = NoRunners
    /\ crossfs = FALSE

\* the call's frame is gone once get_latest_data has returned or raised
DropLocals ==
    /\ cisa_data' = NoFeed
    /\ cached_data' = NoneDF
    /\ cached_catalog_version' = None
    /\ new_cves' = <<>>
    /\ epss' = <<>>
    /\ cvss' = <<>>
    /\ processed_data' = NoneDF

\* an end of the run that swallows an exception and hands back nothing
FinishSilently(kind, at, ret) ==
    /\ pc' = "idle"
    /\ result' = [kind |-> IF kind = "error" THEN "none" ELSE kind, at |-> at,
                  returned |-> ret,
                  feed |-> IF kind \in {"noop", "updated"} THEN cisa_data ELSE NoFeed]
    /\ DropLocals

\* the run ends: get_latest_data returns ret (kind "noop" or "updated"), an
\* exception raised at `at` leaves it (kind "error"), or the process dies
\* there (kind "crashed").  feed: the feed a run that returned had fetched
Finish(kind, at, ret) ==
    /\ pc' = "idle"
    /\ result' = [kind |-> kind, at |-> at, returned |-> ret,
                  feed |-> IF kind \in {"noop", "updated"} THEN cisa_data ELSE NoFeed]
    /\ DropLocals

\* the run goes on at `next` with no change to its frame other than those named
Goto(next) ==
    /\ pc' = next
    /\ UNCHANGED result

\* ------------------------------------------------------------ get_latest_data
\* cisa_data = fetch_cisa_data(): the call raises, or the document arrives
FetchCisaData ==
    /\ pc = "idle"
    /\ runs < MaxRuns
    /\ runs' = runs + 1
    /\ last' = IF result.kind = "updated"
                THEN [kind |-> "updated", returned |-> result.returned]
                ELSE NoLast
    /\ calls' = <<>>
    /\ writes' = {}
    /\ tmp_file' = Absent
    /\ priorCache' = cacheFile
    /\ \E r \in FeedResponses :
          LET res == fetch_cisa_data(r) IN
          IF res.raised
          THEN /\ cisa_data' = NoFeed
               /\ unchanged' = FALSE
               /\ pc' = "idle"
               /\ result' = [kind |-> "error", at |-> "fetch", returned |-> NoneDF,
                             feed |-> NoFeed]
          ELSE /\ cisa_data' = res.value
               /\ unchanged' = (res.value = result.feed)
               /\ pc' = "load"
               /\ result' = NoResult
    /\ UNCHANGED <<cached_data, cached_catalog_version, new_cves, epss, cvss, processed_data,
                   cacheFile, bakFile, legacy, mergedIds, probe, runner, crossfs>>

\* cached_data, cached_catalog_version = load_cached_data()
LoadCachedData ==
    /\ pc = "load"
    /\ CASE cacheFile.kind = "absent" ->
              /\ Goto("decide")
              /\ UNCHANGED <<locals, cacheFile, bakFile, writes>>
         [] cacheFile.kind = "doc" ->
              /\ cached_data' = LoadFrame(cacheFile)
              /\ cached_catalog_version' = cacheFile.catalogVersion
              /\ Goto("decide")
              /\ UNCHANGED <<cisa_data, new_cves, epss, cvss, processed_data, cacheFile,
                             bakFile, writes>>
         [] cacheFile.kind \in {"truncated", "garbage"} ->
              \* json.JSONDecodeError: os.rename(CACHE_FILE, CACHE_FILE + ".bak")
              /\ bakFile' = cacheFile
              /\ cacheFile' = Absent
              /\ writes' = writes \cup {"cache", "bak"}
              /\ Goto("decide")
              /\ UNCHANGED locals
         [] cacheFile.kind = "noprocessed" ->
              \* data['processed_data'] raises KeyError, which nothing catches
              /\ Finish("error", "load", NoneDF)
              /\ UNCHANGED <<cacheFile, bakFile, writes>>
         [] cacheFile.kind = "unreadable" ->
              \* open() raises OSError, which nothing catches
              /\ Finish("error", "load", NoneDF)
              /\ UNCHANGED <<cacheFile, bakFile, writes>>
    /\ UNCHANGED <<history, tmp_file, legacy, calls>>

\* the no-op path: both date columns through pd.to_datetime, return cached_data
UseCachedData ==
    /\ pc = "decide"
    /\ ~NeedsUpdate(cached_data, cached_catalog_version, cisa_data)
    /\ Finish("noop", "-", DF(RowsToDatetime(cached_data.rows)))
    /\ UNCHANGED <<history, files, calls, writes>>

\* line 182 with a cache loaded: cisa_data['catalogVersion'] is evaluated and
\* raises KeyError when the document lacks the key (without a cache the `or`
\* short-circuits and the key is not read)
CompareCatalogVersion ==
    /\ pc = "decide"
    /\ ~cached_data.isNone
    /\ "catalogVersion" \notin cisa_data.keys
    /\ Finish("error", "decide", NoneDF)
    /\ UNCHANGED <<history, files, calls, writes>>

\* process_cisa_data up to the delta (lines 33-42); a document without
\* vulnerabilities raises KeyError at line 33, and an empty vulnerabilities
\* list gives a DataFrame without columns and df['dateAdded'] raises KeyError
ProcessCisaData ==
    /\ pc = "decide"
    /\ cached_data.isNone \/ "catalogVersion" \in cisa_data.keys
    /\ NeedsUpdate(cached_data, cached_catalog_version, cisa_data)
    /\ IF "vulnerabilities" \notin cisa_data.keys \/ cisa_data.vulnerabilities = <<>>
       THEN Finish("error", "process", NoneDF)
       ELSE LET new == NewCves(FeedFrame(cisa_data), cached_data) IN
            /\ new_cves' = new
            /\ IF new = <<>>
               THEN /\ processed_data' = cached_data
                    /\ Goto("save")
               ELSE /\ Goto("epss")
                    /\ UNCHANGED processed_data
            /\ UNCHANGED <<cisa_data, cached_data, cached_catalog_version, epss, cvss>>
    /\ UNCHANGED <<history, files, calls, writes>>

\* new_cves['EPSS'] = new_cves['cveID'].apply(fetch_epss_score): the next call
FetchEpssScore ==
    /\ pc = "epss"
    /\ LET k == Len(epss) + 1
           col == ApplyColumn(FeedFrame(cisa_data), new_cves) IN
       \E r \in EpssResponses :
          LET res == fetch_epss_score(r) IN
          /\ calls' = Append(calls, [svc |-> "epss", cve |-> col[k]])
          /\ IF res.raised
             THEN Finish("error", "epss", NoneDF)
             ELSE /\ epss' = Append(epss, res.value)
                  /\ Goto(IF k = Len(col) THEN "cvss" ELSE "epss")
                  /\ UNCHANGED <<cisa_data, cached_data, cached_catalog_version, new_cves,
                                 cvss, processed_data>>
    /\ UNCHANGED <<history, files, writes>>

\* new_cves['CVSS3'] = new_cves['cveID'].apply(fetch_cvss_base_score): the next call
FetchCvssBaseScore ==
    /\ pc = "cvss"
    /\ LET k == Len(cvss) + 1
           col == ApplyColumn(FeedFrame(cisa_data), new_cves) IN
       \E r \in CvssResponses :
          LET res == fetch_cvss_base_score(r) IN
          /\ calls' = Append(calls, [svc |-> "cvss", cve |-> col[k]])
          /\ IF res.raised
             THEN Finish("error", "cvss", NoneDF)
             ELSE /\ cvss' = Append(cvss, res.value)
                  /\ Goto(IF k = Len(col) THEN "merge" ELSE "cvss")
                  /\ UNCHANGED <<cisa_data, cached_data, cached_catalog_version, new_cves,
                                 epss, processed_data>>
    /\ UNCHANGED <<history, files, writes>>

\* fillna(0) on both score columns, then the concat with the cached rows
MergeNewCves ==
    /\ pc = "merge"
    /\ processed_data' = Combine(cached_data, Enriched(new_cves, epss, cvss))
    /\ Goto("save")
    /\ UNCHANGED <<history, cisa_data, cached_data, cached_catalog_version, new_cves, epss,
                   cvss, files, calls, writes>>

\* ----------------------------------------------------------- save_cached_data
\* lines 123-133: cisa_data['catalogVersion'] is read (KeyError when the
\* document lacks it), then the old cache document is dumped under the name
\* built from it; the write can fail part-way
SaveArchive ==
    /\ pc = "save"
    /\ IF "catalogVersion" \notin cisa_data.keys
       THEN /\ Finish("error", "save", NoneDF)
            /\ UNCHANGED <<legacy, writes>>
       ELSE
       IF Exists(cacheFile)
       THEN \E ok \in BOOLEAN :
               /\ writes' = writes \cup {"legacy"}
               /\ IF ok
                  THEN /\ legacy' = [legacy EXCEPT ![LegacyName(cisa_data.catalogVersion)] = cacheFile]
                       /\ Goto("tmp")
                       /\ UNCHANGED locals
                  ELSE /\ legacy' = [legacy EXCEPT ![LegacyName(cisa_data.catalogVersion)] = Truncated]
                       /\ Finish("error", "archive", NoneDF)
       ELSE /\ Goto("tmp")
            /\ UNCHANGED <<locals, legacy, writes>>
    /\ UNCHANGED <<history, cacheFile, bakFile, tmp_file, calls>>

\* lines 135-147: the datetime columns of the DataFrame that was passed in are
\* overwritten with ISO text (the caller's object, and cached_data too when
\* process_cisa_data returned cached_data itself), then the document is dumped
\* into a NamedTemporaryFile
SaveWriteTemp ==
    /\ pc = "tmp"
    /\ writes' = writes \cup {"tmp"}
    /\ \E ok \in BOOLEAN :
          IF ok
          THEN /\ processed_data' = DF(SavedRows(processed_data.rows))
               /\ cached_data' = IF new_cves = <<>> THEN processed_data' ELSE cached_data
               /\ tmp_file' = DocFile(cisa_data.catalogVersion, SavedRows(processed_data.rows))
               /\ Goto("move")
               /\ UNCHANGED <<cisa_data, cached_catalog_version, new_cves, epss, cvss>>
          ELSE /\ tmp_file' = Truncated
               /\ Finish("error", "tmp", NoneDF)
    /\ UNCHANGED <<history, cacheFile, bakFile, legacy, calls>>

\* shutil.move(tmp_file_path, CACHE_FILE): os.rename when the temporary
\* directory is on the cache's filesystem; otherwise copy onto CACHE_FILE
\* (opened for writing, so truncated first) and unlink the source
SaveMove ==
    /\ pc = "move"
    /\ \E how \in {"rename", "copy", "fail"} :
          CASE how = "rename" ->
                 /\ cacheFile' = tmp_file
                 /\ tmp_file' = Absent
                 /\ writes' = writes \cup {"cache"}
                 /\ mergedIds' = mergedIds \cup IdsOf(tmp_file.processed_data)
                 /\ Goto("commit")
                 /\ UNCHANGED locals
            [] how = "copy" ->
                 /\ cacheFile' = Truncated
                 /\ writes' = writes \cup {"cache"}
                 /\ Goto("copying")
                 /\ UNCHANGED <<locals, tmp_file, mergedIds>>
            [] how = "fail" ->
                 /\ Finish("error", "move", NoneDF)
                 /\ UNCHANGED <<cacheFile, tmp_file, writes, mergedIds>>
    /\ UNCHANGED <<runs, last, unchanged, priorCache, probe, runner, crossfs, bakFile, legacy,
                   calls>>

\* the copy of shutil.move runs to its end, or stops with an OSError
SaveMoveCopy ==
    /\ pc = "copying"
    /\ \E ok \in BOOLEAN :
          IF ok
          THEN /\ cacheFile' = tmp_file
               /\ tmp_file' = Absent
               /\ mergedIds' = mergedIds \cup IdsOf(tmp_file.processed_data)
               /\ Goto("commit")
               /\ UNCHANGED locals
          ELSE /\ Finish("error", "move", NoneDF)
               /\ UNCHANGED <<cacheFile, tmp_file, mergedIds>>
    /\ UNCHANGED <<runs, last, unchanged, priorCache, probe, runner, crossfs, bakFile, legacy,
                   calls, writes>>

\* commit_and_push_changes, then get_latest_data's return processed_data.
\* A failing git command is caught; an unset GITHUB_E / GITHUB_U / GITHUB_REPO_URL
\* raises TypeError / AttributeError, which is not
CommitAndPush ==
    /\ pc = "commit"
    /\ \E git \in {"ok", "CalledProcessError", "unset"} :
          IF git = "unset"
          THEN Finish("error", "git", NoneDF)
          ELSE Finish("updated", "-", processed_data)
    /\ UNCHANGED <<history, files, calls, writes>>

\* the process is killed during a run
Crash ==
    /\ pc # "idle"
    /\ Finish("crashed", pc, NoneDF)
    /\ UNCHANGED <<history, files, calls, writes>>

Next ==
    \/ FetchCisaData
    \/ LoadCachedData
    \/ UseCachedData
    \/ CompareCatalogVersion
    \/ ProcessCisaData
    \/ FetchEpssScore
    \/ FetchCvssBaseScore
    \/ MergeNewCves
    \/ SaveArchive
    \/ SaveWriteTemp
    \/ SaveMove
    \/ SaveMoveCopy
    \/ CommitAndPush
    \/ Crash

Spec == Init /\ [][Next]_vars

\* ------------------------------------------- runs whose external calls return
\* one statement of a run of get_latest_data after the feed request
RunStep ==
    \/ LoadCachedData
    \/ UseCachedData
    \/ CompareCatalogVersion
    \/ ProcessCisaData
    \/ FetchEpssScore
    \/ FetchCvssBaseScore
    \/ MergeNewCves
    \/ SaveArchive
    \/ SaveWriteTemp
    \/ SaveMove
    \/ SaveMoveCopy
    \/ CommitAndPush

ReturningNext ==
    \/ FetchCisaData
    \/ RunStep

\* the process is not killed, and the single thread of a run goes on to its
\* next statement whenever the call it is in has returned or raised
ReturningSpec == Init /\ [][ReturningNext]_vars /\ WF_vars(RunStep)

\* ------------------------------------------------- the scoring clients alone
\* fetch_epss_score and fetch_cvss_base_score as functions of the service's
\* answer: one call on any answer of EpssInputs / CvssInputs, outside any run
pipeline == <<pc, runs, cisa_data, cached_data, cached_catalog_version, new_cves, epss, cvss,
              processed_data, tmp_file, cacheFile, bakFile, legacy, calls, writes, result,
              last, unchanged, mergedIds, priorCache, runner, crossfs>>

ScoringInit ==
    /\ pc = "idle"
    /\ runs = 0
    /\ cisa_data = NoFeed
    /\ cached_data = NoneDF
    /\ cached_catalog_version = None
    /\ new_cves = <<>>
    /\ epss = <<>>
    /\ cvss = <<>>
    /\ processed_data = NoneDF
    /\ tmp_file = Absent
    /\ cacheFile = Absent
    /\ bakFile = Absent
    /\ legacy = [n \in LegacyNames |-> Absent]
    /\ calls = <<>>
    /\ writes = {}
    /\ result = NoResult
    /\ last = NoLast
    /\ unchanged = FALSE
    /\ mergedIds = {}
    /\ priorCache = Absent
    /\ runner = NoRunners
    /\ crossfs = FALSE
    /\ probe \in {[fn |-> "epss", done |-> FALSE, response |-> r, result |-> Return(None)] :
                     r \in EpssInputs}
                 \cup {[fn |-> "cvss", done |-> FALSE, response |-> r, result |-> Return(None)] :
                          r \in CvssInputs}

CallEpssClient ==
    /\ probe.fn = "epss"
    /\ ~probe.done
    /\ probe' = [probe EXCEPT !.done = TRUE, !.result = fetch_epss_score(probe.response)]
    /\ UNCHANGED pipeline

CallCvssClient ==
    /\ probe.fn = "cvss"
    /\ ~probe.done
    /\ probe' = [probe EXCEPT !.done = TRUE, !.result = fetch_cvss_base_score(probe.response)]
    /\ UNCHANGED pipeline

ScoringNext ==
    \/ CallEpssClient
    \/ CallCvssClient

ScoringSpec == ScoringInit /\ [][ScoringNext]_vars

\* ------------------------------------------------------ two overlapping runs
\* Two runs of get_latest_data on the same CACHE_FILE, statement by statement
\* where they touch it.  The scoring services answer without a value and no
\* external call fails; what a run meets on disk is what the other run does.
OverlapFeeds ==
    { [catalogVersion |-> <<"1", ".", "1">>, vulnerabilities |-> <<FeedRecord("CVE-A", 1)>>,
       keys |-> FeedKeys],
      [catalogVersion |-> <<"1", ".", "2">>,
       vulnerabilities |-> <<FeedRecord("CVE-A", 2), FeedRecord("CVE-B", 1)>>,
       keys |-> FeedKeys] }

\* the cache document an earlier run saved for version 1.1
OldDocument ==
    DocFile(<<"1", ".", "1">>,
            SavedRows(Enriched(RowsToDatetime(<<FeedRecord("CVE-A", 1)>>), <<None>>, <<None>>)))

sequential == <<pc, runs, cisa_data, cached_data, cached_catalog_version, new_cves, epss, cvss,
                processed_data, tmp_file, calls, writes, result, last, unchanged, mergedIds,
                priorCache, probe>>

OverlapInit ==
    /\ pc = "idle"
    /\ runs = 0
    /\ cisa_data = NoFeed
    /\ cached_data = NoneDF
    /\ cached_catalog_version = None
    /\ new_cves = <<>>
    /\ epss = <<>>
    /\ cvss = <<>>
    /\ processed_data = NoneDF
    /\ tmp_file = Absent
    /\ cacheFile \in {Absent, OldDocument}
    /\ bakFile = Absent
    /\ legacy = [n \in LegacyNames |-> Absent]
    /\ calls = <<>>
    /\ writes = {}
    /\ result = NoResult
    /\ last = NoLast
    /\ unchanged = FALSE
    /\ mergedIds = {}
    /\ priorCache = Absent
    /\ probe = NoProbe
    /\ runner = [i \in Runners |-> StartRunner]
    /\ crossfs \in BOOLEAN

\* the run i ends: returned ("noop", "updated") or raised ("error")
Ended(i, how) == [runner[i] EXCEPT !.pc = "done", !.result = how]

\* the other run's copy writes into the file at CACHE_FILE
Copying(j, where) == runner[j].pc = "copying" /\ runner[j].dest = where

\* what a file holds when the copies into it are over: the run's document, or,
\* if two copies wrote into it at once, either document or a mix of both
CopiedContent(i) ==
    IF runner[i].torn
    THEN {runner[j].written : j \in Runners} \cup {Garbage}
    ELSE {runner[i].written}

\* cisa_data = fetch_cisa_data()
OverlapFetch(i) ==
    /\ runner[i].pc = "start"
    /\ \E feed \in OverlapFeeds :
          runner' = [runner EXCEPT ![i] = [@ EXCEPT !.pc = "load", !.cisa_data = feed]]
    /\ UNCHANGED <<sequential, cacheFile, bakFile, legacy, crossfs>>

\* load_cached_data up to the return or the JSONDecodeError (lines 104-113)
OverlapLoad(i) ==
    /\ runner[i].pc = "load"
    /\ runner' = [runner EXCEPT ![i] =
          CASE cacheFile.kind = "absent" -> [@ EXCEPT !.pc = "decide"]
            [] cacheFile.kind = "doc" ->
                 [@ EXCEPT !.pc = "decide", !.cached_data = LoadFrame(cacheFile),
                           !.cached_catalog_version = cacheFile.catalogVersion]
            [] OTHER -> [@ EXCEPT !.pc = "quarantine"]]
    /\ UNCHANGED <<sequential, cacheFile, bakFile, legacy, crossfs>>

\* the except branch: os.rename(CACHE_FILE, CACHE_FILE + ".bak") moves whatever
\* file is at CACHE_FILE by now, a file the other run is copying into included;
\* it raises FileNotFoundError if none is
OverlapQuarantine(i) ==
    /\ runner[i].pc = "quarantine"
    /\ IF Exists(cacheFile)
       THEN /\ bakFile' = cacheFile
            /\ cacheFile' = Absent
            /\ runner' = [j \in Runners |->
                  IF j = i THEN [runner[j] EXCEPT !.pc = "decide"]
                  ELSE IF Copying(j, "cache") THEN [runner[j] EXCEPT !.dest = "bak"]
                  ELSE IF Copying(j, "bak") THEN [runner[j] EXCEPT !.dest = "unlinked"]
                  ELSE runner[j]]
       ELSE /\ runner' = [runner EXCEPT ![i] = Ended(i, "error")]
            /\ UNCHANGED <<cacheFile, bakFile>>
    /\ UNCHANGED <<sequential, legacy, crossfs>>

\* line 182 and process_cisa_data, or the no-op return
OverlapDecide(i) ==
    /\ runner[i].pc = "decide"
    /\ LET me == runner[i]
           new == NewCves(FeedFrame(me.cisa_data), me.cached_data)
           absent == [k \in 1..Len(new) |-> None]
       IN  runner' = [runner EXCEPT ![i] =
              IF NeedsUpdate(me.cached_data, me.cached_catalog_version, me.cisa_data)
              THEN [@ EXCEPT !.pc = "save",
                             !.processed_data =
                                 IF new = <<>> THEN me.cached_data
                                 ELSE Combine(me.cached_data, Enriched(new, absent, absent))]
              ELSE Ended(i, "noop")]
    /\ UNCHANGED <<sequential, cacheFile, bakFile, legacy, crossfs>>

\* save_cached_data up to the temporary file (lines 123-147): json.load of
\* the file at CACHE_FILE raises JSONDecodeError on a file being copied into
OverlapSave(i) ==
    /\ runner[i].pc = "save"
    /\ LET me == runner[i] IN
       IF Exists(cacheFile) /\ cacheFile.kind # "doc"
       THEN /\ runner' = [runner EXCEPT ![i] = Ended(i, "error")]
            /\ UNCHANGED legacy
       ELSE /\ legacy' = IF Exists(cacheFile)
                         THEN [legacy EXCEPT ![LegacyName(me.cisa_data.catalogVersion)] =
                                                 cacheFile]
                         ELSE legacy
            /\ runner' = [runner EXCEPT ![i] =
                  [@ EXCEPT !.pc = "move",
                            !.written = DocFile(me.cisa_data.catalogVersion,
                                                SavedRows(me.processed_data.rows))]]
    /\ UNCHANGED <<sequential, cacheFile, bakFile, crossfs>>

\* shutil.move (line 149): os.rename on one filesystem, and then the rest of
\* the run; across filesystems the open of CACHE_FILE for writing, which
\* truncates the file there, the one the other run is copying into included
OverlapMove(i) ==
    /\ runner[i].pc = "move"
    /\ IF crossfs
       THEN /\ cacheFile' = Truncated
            /\ runner' = [j \in Runners |->
                  IF j = i
                  THEN [runner[j] EXCEPT !.pc = "copying", !.dest = "cache",
                                         !.torn = \E k \in Runners \ {i} : Copying(k, "cache")]
                  ELSE IF Copying(j, "cache") THEN [runner[j] EXCEPT !.torn = TRUE]
                  ELSE runner[j]]
       ELSE /\ cacheFile' = runner[i].written
            /\ runner' = [runner EXCEPT ![i] = Ended(i, "updated")]
    /\ UNCHANGED <<sequential, bakFile, legacy, crossfs>>

\* the copy of shutil.move ends, then commit_and_push_changes and the return
OverlapCopyEnd(i) ==
    /\ runner[i].pc = "copying"
    /\ LET me == runner[i]
           others == \E j \in Runners \ {i} : Copying(j, me.dest)
       IN  CASE me.dest = "cache" /\ ~others ->
                  /\ cacheFile' \in CopiedContent(i)
                  /\ UNCHANGED bakFile
             [] me.dest = "bak" /\ ~others ->
                  /\ bakFile' \in CopiedContent(i)
                  /\ UNCHANGED cacheFile
             [] OTHER -> UNCHANGED <<cacheFile, bakFile>>
    /\ runner' = [runner EXCEPT ![i] = Ended(i, "updated")]
    /\ UNCHANGED <<sequential, legacy, crossfs>>

OverlapNext ==
    \E i \in Runners :
        \/ OverlapFetch(i)
        \/ OverlapLoad(i)
        \/ OverlapQuarantine(i)
        \/ OverlapDecide(i)
        \/ OverlapSave(i)
        \/ OverlapMove(i)
        \/ OverlapCopyEnd(i)

OverlapSpec == OverlapInit /\ [][OverlapNext]_vars

\* ------------------------------------------------------------------ claims
Distinct(rows) == \A i, j \in 1..Len(rows) : rows[i].cveID = rows[j].cveID => i = j

Returned == pc = "idle" /\ result.kind \in {"noop", "updated"}

UpdatePcs == {"epss", "cvss", "merge", "save", "tmp", "move", "copying", "commit"}

\* C1: every archive entry holds a cache document whose catalogVersion is the
\* version the entry is named for (the superseded version, not the new one).
C1_ArchiveNamedForOwnVersion ==
    \A v \in Versions :
        legacy[LegacyName(v)].kind = "doc" => legacy[LegacyName(v)].catalogVersion = v

\* C2: in every state, a crash or failure at any step of save_cached_data
\* included, CACHE_FILE is a complete document or absent, never a partial one.
C2_CanonicalNeverPartial == cacheFile.kind # "truncated"

\* C3: no run of get_latest_data ends with an exception raised by
\* fetch_epss_score or fetch_cvss_base_score.
C3_EnrichmentFailureNeverAborts ==
    ~(pc = "idle" /\ result.kind = "error" /\ result.at \in {"epss", "cvss"})

\* C4: load_cached_data raises no error, whatever unreadable or malformed file
\* it finds at CACHE_FILE.
C4_LoadFailsSoftly ==
    ~(pc = "idle" /\ result.kind = "error" /\ result.at = "load")

\* C5: the snapshot get_latest_data returns, and the one CACHE_FILE holds, have
\* pairwise distinct cveID.
C5_IdentifiersDistinct ==
    /\ Returned => Distinct(result.returned.rows)
    /\ cacheFile.kind = "doc" => Distinct(cacheFile.processed_data)

\* C6: a no-op run that follows an update run with the same feed returns a
\* snapshot identical to the one the update run returned.
C6_Idempotent ==
    (pc = "idle" /\ result.kind = "noop" /\ last.kind = "updated" /\ unchanged)
        => result.returned = last.returned

\* C7: with a cache whose catalog version equals the feed's, the run never
\* enters the update path, and a run that returns by the no-op path has made
\* no scoring call, has written no file and returns the cached snapshot.
C7_NoOpPath ==
    /\ pc \in UpdatePcs =>
          (cached_data.isNone \/ cached_catalog_version # cisa_data.catalogVersion)
    /\ (pc = "idle" /\ result.kind = "noop") =>
          /\ calls = <<>>
          /\ writes = {}
          /\ cacheFile.kind = "doc"
          /\ cacheFile.catalogVersion = result.feed.catalogVersion
          /\ result.returned = LoadFrame(cacheFile)

\* the C7 case: a no-op run whose feed listed an identifier the cache lacks
C7_Witness ==
    /\ pc = "idle"
    /\ result.kind = "noop"
    /\ \E k \in 1..Len(result.feed.vulnerabilities) :
          result.feed.vulnerabilities[k].cveID \notin IdsOf(result.returned.rows)

\* C8: while a run enriches, none of its scoring calls is for an identifier
\* that an earlier run merged into CACHE_FILE.
C8_FetchOnce ==
    pc \in {"epss", "cvss", "merge"} =>
        \A k \in 1..Len(calls) : calls[k].cve \notin mergedIds

\* C9: on the update path with a prior cache, the merged snapshot starts with
\* the cached rows, every field as cached; and the document that replaces
\* CACHE_FILE starts with the rows of the document it replaces.
C9_AppendOnlyMerge ==
    /\ (pc = "save" /\ ~cached_data.isNone) =>
          /\ Len(processed_data.rows) >= Len(cached_data.rows)
          /\ SubSeq(processed_data.rows, 1, Len(cached_data.rows)) = cached_data.rows
    /\ (pc = "commit" /\ ~cached_data.isNone) =>
          LET old == legacy[LegacyName(cisa_data.catalogVersion)] IN
          /\ old.kind = "doc"
          /\ Len(cacheFile.processed_data) >= Len(old.processed_data)
          /\ SubSeq(cacheFile.processed_data, 1, Len(old.processed_data)) = old.processed_data

\* the C9 case: a merge with new rows onto a cache holding a row whose feed copy differs
C9_Witness ==
    /\ pc = "commit"
    /\ ~cached_data.isNone
    /\ new_cves # <<>>
    /\ \E i \in 1..Len(cached_data.rows), k \in 1..Len(cisa_data.vulnerabilities) :
          /\ cached_data.rows[i].cveID = cisa_data.vulnerabilities[k].cveID
          /\ cached_data.rows[i].dateAdded # ToDatetime(cisa_data.vulnerabilities[k].dateAdded)

\* C10: a run in which save_cached_data raised still hands the merged
\* snapshot to its caller.
C10_SaveFailureStillReturns ==
    (pc = "idle" /\ result.kind = "error" /\ result.at \in {"archive", "tmp", "move"})
        => ~result.returned.isNone

\* C11: a run that found a readable cache and ended with an exception raised
\* by the feed fetch, the enrichment, the archive copy, the temp-file write or
\* the move leaves CACHE_FILE, content and catalog version, as it found it.
C11_FailedRunLeavesCache ==
    (/\ pc = "idle"
     /\ result.kind = "error"
     /\ result.at \in {"fetch", "process", "epss", "cvss", "archive", "tmp", "move"}
     /\ priorCache.kind = "doc")
        => cacheFile = priorCache

\* C12: a run whose feed document lacks catalogVersion or vulnerabilities makes
\* no scoring call and writes neither the archive, a temporary file nor a new
\* CACHE_FILE (load_cached_data's quarantine rename aside).
C12_MalformedFeedStopsRun ==
    (pc # "idle" /\ Malformed(cisa_data)) =>
        /\ calls = <<>>
        /\ writes \subseteq {"cache", "bak"}
        /\ tmp_file = Absent

C14_AbsentScoreStoredAsZero ==
    /\ (pc \in {"save", "tmp", "move", "copying", "commit"} /\ new_cves # <<>>) =>
          LET n0 == Len(processed_data.rows) - Len(new_cves) IN
          /\ Len(epss) = Len(new_cves)
          /\ Len(cvss) = Len(new_cves)
          /\ \A k \in 1..Len(new_cves) :
                /\ epss[k] = None => processed_data.rows[n0 + k].EPSS = 0
                /\ cvss[k] = None => processed_data.rows[n0 + k].CVSS3 = 0
    /\ (pc = "commit" /\ new_cves # <<>>) =>
          LET n0 == Len(cacheFile.processed_data) - Len(new_cves) IN
          \A k \in 1..Len(new_cves) :
             /\ epss[k] = None => cacheFile.processed_data[n0 + k].EPSS = 0
             /\ cvss[k] = None => cacheFile.processed_data[n0 + k].CVSS3 = 0

\* the C14 case: the severity call of the first new record returned no value,
\* that of the second a score, and the likelihood of the first was a value
C14_Witness ==
    /\ pc = "commit"
    /\ Len(new_cves) = 2
    /\ cvss[1] = None
    /\ cvss[2] # None
    /\ epss[1] # None
    /\ epss[2] = None

\* C16: on the update path the delta is the feed records whose cveID is not in
\* the cached snapshot, each once and in feed order: every feed record when
\* there is no cache, none whose cveID is cached.
C16_DeltaIsUncachedFeedRecords ==
    pc \in UpdatePcs =>
        LET feed == cisa_data.vulnerabilities
            ids == IF cached_data.isNone THEN {} ELSE IdsOf(cached_data.rows)
            K == {k \in 1..Len(feed) : feed[k].cveID \notin ids}
            Kth(j) == CHOOSE k \in K : Cardinality({i \in K : i <= k}) = j
        IN  /\ Len(new_cves) = Cardinality(K)
            /\ \A j \in 1..Len(new_cves) :
                  /\ new_cves[j].cveID = feed[Kth(j)].cveID
                  /\ new_cves[j].dateAdded.day = feed[Kth(j)].dateAdded.day
                  /\ new_cves[j].cveID \notin ids
            /\ cached_data.isNone => Len(new_cves) = Len(feed)

\* the C16 case: the feed lists a cached identifier and one the cache lacks
C16_Witness ==
    /\ pc = "epss"
    /\ ~cached_data.isNone
    /\ Len(new_cves) = 1
    /\ Len(cisa_data.vulnerabilities) = 2

\* C17: the scoring calls of an update run are one likelihood call for each
\* delta record, in delta order, then one severity call for each, in delta
\* order: 2 x |delta| calls once the enrichment is over, none before it is
\* due, none repeated, none for an identifier outside the delta.
C17_OneCallPerRecordAndService ==
    pc \in UpdatePcs =>
        LET n == Len(new_cves) IN
        /\ \A i \in 1..Len(calls) :
              /\ i <= 2 * n
              /\ calls[i] = IF i <= n
                            THEN [svc |-> "epss", cve |-> new_cves[i].cveID]
                            ELSE [svc |-> "cvss", cve |-> new_cves[i - n].cveID]
        /\ pc = "epss" => Len(calls) = Len(epss) /\ Len(calls) < n
        /\ pc = "cvss" => Len(calls) = n + Len(cvss) /\ Len(calls) < 2 * n
        /\ pc \notin {"epss", "cvss"} => Len(calls) = 2 * n

\* the C17 case: the enrichment of a delta of one record is over, for a feed
\* that also lists a cached record
C17_Witness ==
    /\ pc = "merge"
    /\ ~cached_data.isNone
    /\ Len(new_cves) = 1
    /\ Len(cisa_data.vulnerabilities) = 2
    /\ Len(calls) = 2

\* C18: the merged snapshot is the cached rows in their cached order, then
\* one row for each feed record whose cveID is not cached, in feed order.
C18_CachedThenDeltaInFeedOrder ==
    pc = "save" =>
        LET rows == processed_data.rows
            n0 == IF cached_data.isNone THEN 0 ELSE Len(cached_data.rows)
            feed == cisa_data.vulnerabilities
            K == {k \in 1..Len(feed) : feed[k].cveID \notin CachedCves(cached_data)}
            Kth(j) == CHOOSE k \in K : Cardinality({i \in K : i <= k}) = j
        IN  /\ Len(rows) = n0 + Cardinality(K)
            /\ \A i \in 1..n0 : rows[i].cveID = cached_data.rows[i].cveID
            /\ \A j \in 1..Cardinality(K) :
                  /\ rows[n0 + j].cveID = feed[Kth(j)].cveID
                  /\ rows[n0 + j].dateAdded.day = feed[Kth(j)].dateAdded.day

\* the C18 case: the feed lists a new record before a cached one, and the
\* merged snapshot has the cached rows before it
C18_Witness ==
    /\ pc = "save"
    /\ ~cached_data.isNone
    /\ Len(cached_data.rows) >= 1
    /\ Len(new_cves) = 1
    /\ Len(cisa_data.vulnerabilities) = 2
    /\ cisa_data.vulnerabilities[1].cveID = new_cves[1].cveID
    /\ processed_data.rows[Len(processed_data.rows)].cveID = new_cves[1].cveID

\* C15 as stated: on any answer of the likelihood service, fetch_epss_score
\* returns None when the status code is not 200 or the body reports no
\* matching record, and otherwise returns the first record's epss as a number.
C15_EpssAbsentOrFirstValue ==
    (probe.fn = "epss" /\ probe.done /\ probe.response.conn) =>
        LET r == probe.response
            out == probe.result
        IN  IF r.status_code # 200 \/ (r.body.kind = "json" /\ r.body.total = 0)
            THEN out = Return(None)
            ELSE /\ ~out.raised
                 /\ r.body.kind = "json"
                 /\ out.value = Some(Float(r.body.data[1].epss))

\* C15 amended: fetch_epss_score returns None when the status code is not 200,
\* or the body's status is not "OK", or its total is 0; it returns the first
\* record's epss as a number when the status code is 200, the body's status
\* "OK" and the total positive; on a 200 answer whose body is not JSON or has
\* not these fields the call raises.
C15_EpssAbsentUnlessOkMatch ==
    (probe.fn = "epss" /\ probe.done /\ probe.response.conn) =>
        LET r == probe.response
            out == probe.result
        IN  IF r.status_code # 200 THEN out = Return(None)
            ELSE IF r.body.kind # "json" THEN out.raised
            ELSE IF r.body.status # "OK" \/ r.body.total = 0 THEN out = Return(None)
            ELSE out = Return(Some(Float(r.body.data[1].epss)))

\* the C15 case: a 200 answer with a matching record and a status other than "OK"
C15_Witness ==
    /\ probe.fn = "epss"
    /\ probe.done
    /\ probe.response.status_code = 200
    /\ probe.response.body.kind = "json"
    /\ probe.response.body.status # "OK"
    /\ probe.response.body.total > 0
    /\ probe.result = Return(None)

\* C19 as stated: on a 200 answer with metrics, fetch_cvss_base_score returns
\* the base score of the first of cvssMetricV31, cvssMetricV30, cvssMetricV2
\* whose entry has a numeric base score, and None only when none of them has;
\* an unusable V31 entry does not hide a usable V30 or V2 score.
C19_FirstUsableSchema ==
    (/\ probe.fn = "cvss"
     /\ probe.done
     /\ probe.response.status_code = 200
     /\ probe.response.body.kind = "json"
     /\ Len(probe.response.body.vulnerabilities) > 0) =>
        LET m == probe.response.body.vulnerabilities[1]
            Scored(x) == x.present /\ x.usable /\ x.baseScore # None
        IN  probe.result.value =
                IF Scored(m.cvssMetricV31) THEN m.cvssMetricV31.baseScore
                ELSE IF Scored(m.cvssMetricV30) THEN m.cvssMetricV30.baseScore
                ELSE IF Scored(m.cvssMetricV2) THEN m.cvssMetricV2.baseScore
                ELSE None

\* C19 amended: on a 200 answer with metrics, fetch_cvss_base_score looks at
\* the first of cvssMetricV31, cvssMetricV30, cvssMetricV2 that is present,
\* and at no other: it returns that entry's base score, or None when the
\* entry lacks cvssData or baseScore or holds null, and None when no schema
\* is present.
C19_FirstPresentSchema ==
    (/\ probe.fn = "cvss"
     /\ probe.done
     /\ probe.response.status_code = 200
     /\ probe.response.body.kind = "json"
     /\ Len(probe.response.body.vulnerabilities) > 0) =>
        LET m == probe.response.body.vulnerabilities[1]
            first == IF m.cvssMetricV31.present THEN m.cvssMetricV31
                     ELSE IF m.cvssMetricV30.present THEN m.cvssMetricV30
                     ELSE m.cvssMetricV2
        IN  /\ ~probe.result.raised
            /\ probe.result.value =
                  IF first.present /\ first.usable THEN first.baseScore ELSE None

\* the C19 case: V31 is present without a base score, V30 has one, and the
\* call returned None
C19_Witness ==
    /\ probe.fn = "cvss"
    /\ probe.done
    /\ probe.response.status_code = 200
    /\ probe.response.body.kind = "json"
    /\ Len(probe.response.body.vulnerabilities) > 0
    /\ probe.response.body.vulnerabilities[1].cvssMetricV31 = BadMetric
    /\ probe.response.body.vulnerabilities[1].cvssMetricV30 = Metric(75)
    /\ probe.result.value = None

\* C20: a call of fetch_cvss_base_score that returns None has paused for
\* NVD_SLEEPTIME before returning, and a call that returns a score has not
\* paused.
C20_PauseUnlessScore ==
    (probe.fn = "cvss" /\ probe.done /\ ~probe.result.raised) =>
        probe.result.slept = (IF probe.result.value = None THEN NVD_SLEEPTIME ELSE 0)

\* C21: when an update run has returned, CACHE_FILE is a document tagged with
\* the catalogVersion of the feed that run fetched, and its processed_data is
\* the snapshot the run returned; also when the run found no new identifier.
C21_CacheHoldsReturnedSnapshot ==
    (pc = "idle" /\ result.kind = "updated") =>
        /\ cacheFile.kind = "doc"
        /\ cacheFile.catalogVersion = result.feed.catalogVersion
        /\ cacheFile.processed_data = result.returned.rows

\* the C21 case: an update run for a new catalog version whose feed listed
\* only cached identifiers
C21_Witness ==
    /\ pc = "idle"
    /\ result.kind = "updated"
    /\ priorCache.kind = "doc"
    /\ cacheFile.kind = "doc"
    /\ priorCache.catalogVersion # cacheFile.catalogVersion
    /\ IdsOf(result.feed.vulnerabilities) \subseteq IdsOf(priorCache.processed_data)
    /\ Len(cacheFile.processed_data) = Len(priorCache.processed_data)

\* C22: a step that replaces or truncates a CACHE_FILE document is taken only
\* when the archive holds a complete copy of that document, and the archive
\* changes only in a save that found a CACHE_FILE: a run without a cache adds
\* no archive entry.
C22_ArchivedBeforeOverwritten ==
    [][/\ (cacheFile.kind = "doc" /\ cacheFile' # cacheFile) =>
            \E n \in LegacyNames : legacy[n] = cacheFile
       /\ legacy' # legacy => (pc = "save" /\ cacheFile.kind = "doc")
       /\ (pc = "move" /\ pc' \in {"commit", "copying"} /\ priorCache.kind # "doc") =>
            "legacy" \notin writes]_vars

\* the C22 case: CACHE_FILE has been replaced and the archive holds the
\* document that was replaced
C22_Witness ==
    /\ pc = "commit"
    /\ priorCache.kind = "doc"
    /\ cacheFile.kind = "doc"
    /\ cacheFile # priorCache
    /\ \E n \in LegacyNames : legacy[n] = priorCache

\* C23: no run ends with an exception raised by commit_and_push_changes: once
\* CACHE_FILE has been replaced the run returns the merged snapshot.
C23_GitNeverFailsRun ==
    ~(pc = "idle" /\ result.kind = "error" /\ result.at = "git")

\* C24: the identifiers of the CACHE_FILE document a run found are all in any
\* document CACHE_FILE holds later in that run; and as long as load_cached_data
\* has never found a corrupt file, every identifier a save has put into
\* CACHE_FILE is in the document CACHE_FILE holds.
C24_CachedIdentifiersStay ==
    /\ (priorCache.kind = "doc" /\ cacheFile.kind = "doc") =>
          IdsOf(priorCache.processed_data) \subseteq IdsOf(cacheFile.processed_data)
    /\ (cacheFile.kind = "doc" /\ bakFile = Absent) =>
          mergedIds \subseteq IdsOf(cacheFile.processed_data)

\* the C24 case: an update run whose feed went back from version 1.2 to 1.1
\* and no longer listed a cached identifier
C24_Witness ==
    /\ pc = "idle"
    /\ result.kind = "updated"
    /\ priorCache.kind = "doc"
    /\ priorCache.catalogVersion = <<"1", ".", "2">>
    /\ cacheFile.kind = "doc"
    /\ cacheFile.catalogVersion = <<"1", ".", "1">>
    /\ IdsOf(priorCache.processed_data) \ IdsOf(result.feed.vulnerabilities) # {}

\* statements a run has at most left: the position in get_latest_data, and
\* the scoring calls not yet made of two for each feed record
PcRank ==
    [p \in UpdatePcs \cup {"idle", "load", "decide"} |->
        CASE p = "idle" -> 0 [] p = "commit" -> 1 [] p = "copying" -> 2 [] p = "move" -> 3
          [] p = "tmp" -> 4 [] p = "save" -> 5 [] p = "merge" -> 6 [] p = "cvss" -> 7
          [] p = "epss" -> 8 [] p = "decide" -> 9 [] p = "load" -> 10]

Rank ==
    IF pc = "idle" THEN 0
    ELSE PcRank[pc] + 2 * Len(cisa_data.vulnerabilities) - Len(calls)

\* C26: when no call hangs and the process is not killed, a run that has ended
\* has returned by the no-op path, returned by the update path, or raised; a
\* run never makes more than two scoring calls for each record of its feed;
\* and every run ends: a run that has not ended always has a next statement
\* to execute, and each statement lowers the number of statements left.
C26_RunEndsInOneOfThree ==
    /\ [](pc = "idle" /\ runs > 0 => result.kind \in {"noop", "updated", "error"})
    /\ [](pc # "idle" => Len(calls) <= 2 * Len(cisa_data.vulnerabilities))
    /\ [](pc # "idle" => ENABLED RunStep)
    /\ [][pc # "idle" => Rank' < Rank]_vars

\* the same end of every run as a leads-to, under the fairness of ReturningSpec
RunEnds == (pc # "idle") ~> (pc = "idle")

\* the C26 case: a run that enriched two records has returned
C26_Witness ==
    /\ pc = "idle"
    /\ result.kind = "updated"
    /\ Len(calls) = 4

\* C25: with two overlapping runs, no load_cached_data finds a partly written
\* CACHE_FILE, no run renames away a file the other run is copying into, and
\* when both runs have ended and one of them returned by the update path,
\* CACHE_FILE is a complete document that one of them wrote.
C25_OverlappingRunsSeeWholeFiles ==
    /\ \A i \in Runners : runner[i].pc # "quarantine"
    /\ \A i \in Runners : ~Copying(i, "bak")
    /\ ((\A i \in Runners : runner[i].pc = "done")
        /\ (\E i \in Runners : runner[i].result = "updated")) =>
          /\ cacheFile.kind = "doc"
          /\ \E i \in Runners : runner[i].result = "updated" /\ cacheFile = runner[i].written

====
